---- MODULE Spec2Model ----
(***************************************************************************)
(* Model of src/modules/topics.py: the TopicSeries class (a time series of *)
(* per-period topic models kept in four dictionaries) and its static       *)
(* twitter_tokenizer.                                                      *)
(*                                                                         *)
(* Timestamps are integer ticks; Timestamp.date() truncates a tick to its  *)
(* calendar date.  A DataFrame is a function from the cell [c, c+1) of the *)
(* time axis to the tweets stamped in that cell, each tweet already        *)
(* annotated by the external NLP pipeline (nlp.pipe).  A fitted sklearn    *)
(* model is the symbolic term of what it was fitted on, a transformed      *)
(* matrix the term of the model and the data that produced it.             *)
(***************************************************************************)
EXTENDS Integers, Sequences, FiniteSets, TLC

VARIABLES cv_dict, tfidf_dict, nmf_dict, lda_dict, pc, op, args, outcome, ret,
          doc, flags, tokens, tokens2

series == <<cv_dict, tfidf_dict, nmf_dict, lda_dict>>
tok == <<doc, flags, tokens, tokens2>>
vars == <<cv_dict, tfidf_dict, nmf_dict, lda_dict, pc, op, args, outcome, ret,
          doc, flags, tokens, tokens2>>

(* ------------------------------ bounds -------------------------------- *)
\* last tick of the time axis: boundaries are drawn from 0..MaxTime
MaxTime == 4
\* ticks per calendar day (two boundaries may fall on one date)
TicksPerDay == 2
\* longest date_range passed to fit / calc_rec_error
MaxLen == 3
\* longest annotated document passed to twitter_tokenizer
MaxDocLen == 2

(* ------------------------- strings and tokens ------------------------- *)
\* A text is a sequence of characters; str.lower() maps each upper-case
\* character to its lower-case one and leaves the others alone.
UpperChars == <<"A", "B", "C", "D", "E", "F", "G", "H">>
LowerChars == <<"a", "b", "c", "d", "e", "f", "g", "h">>

LowerChar(c) ==
    IF \E k \in DOMAIN UpperChars : UpperChars[k] = c
    THEN LowerChars[CHOOSE k \in DOMAIN UpperChars : UpperChars[k] = c]
    ELSE c

lower(s) == [i \in DOMAIN s |-> LowerChar(s[i])]

\* one spaCy token: its text, lemma and the five flags the tokenizer reads
Token(text, lemma, like_url, is_piclink, is_stop, is_alpha, is_hashtag) ==
    [text |-> text, lemma_ |-> lemma, like_url |-> like_url,
     is_piclink |-> is_piclink, is_stop |-> is_stop, is_alpha |-> is_alpha,
     is_hashtag |-> is_hashtag]

\* default keyword arguments of twitter_tokenizer
DefaultFlags ==
    [urls |-> TRUE, stop_words |-> TRUE, lowercase |-> TRUE,
     alpha_only |-> TRUE, hashtags |-> FALSE, lemma |-> FALSE]

(* ----------------------------- tokenizer ------------------------------ *)
\* line 189: t.like_url or t._.is_piclink & urls   (& binds tighter than or)
IsUrl(t, urls) == t.like_url \/ (t.is_piclink /\ urls)

\* line 192: t.is_stop & stop_words
IsStopped(t, stop_words) == t.is_stop /\ stop_words

\* line 195: not t.is_alpha & alpha_only   (& binds tighter than not)
AlphaGateMut(t, alpha_only) == (~t.is_alpha) /\ alpha_only
AlphaGate(t, alpha_only) == ~(t.is_alpha /\ alpha_only)

\* lines 195-201: inside the gate, hashtags=True drops the token, otherwise
\* only a hashtag token survives
NonAlphaDropped(t, alpha_only, hashtags) ==
    AlphaGate(t, alpha_only) /\ (IF hashtags THEN TRUE ELSE ~t.is_hashtag)

\* lines 202-207: lemma or text, then lowercase
Render(t, lowercase, lemma) ==
    LET s == IF lemma THEN t.lemma_ ELSE t.text
    IN  IF lowercase THEN lower(s) ELSE s

\* one iteration of the loop of lines 187-208 over token t
TokenizerStep(acc, t, f) ==
    IF IsUrl(t, f.urls) THEN acc
    ELSE IF IsStopped(t, f.stop_words) THEN acc
    ELSE IF NonAlphaDropped(t, f.alpha_only, f.hashtags) THEN acc
    ELSE Append(acc, Render(t, f.lowercase, f.lemma))

RECURSIVE TokenizerLoop(_, _, _, _)
TokenizerLoop(d, i, acc, f) ==
    IF i > Len(d) THEN acc
    ELSE TokenizerLoop(d, i + 1, TokenizerStep(acc, d[i], f), f)

twitter_tokenizer(d, f) == TokenizerLoop(d, 1, <<>>, f)

\* TopicSeries.tokenizer: the vectorizers' pass-through tokenizer
tokenizer(d) == d

(* ------------------------- time and the corpus ------------------------ *)
Timestamps == 0..MaxTime
Cells == 0..(MaxTime - 1)

\* Timestamp.date() of lines 89, 121, 122: the calendar date of a timestamp
date(t) == t \div TicksPerDay

\* a tweet of cell c: one alphabetic word that only that cell uses
Tweet(c) ==
    <<Token(<<UpperChars[c + 1]>>, <<LowerChars[c + 1]>>,
            FALSE, FALSE, FALSE, TRUE, FALSE)>>
\* a tweet made of one stop word: the default tokenizer leaves nothing of it
StopTweet ==
    <<Token(<<"t", "h", "e">>, <<"t", "h", "e">>,
            FALSE, FALSE, TRUE, TRUE, FALSE)>>

\* DataFrames: every cell holds its tweet, except that cell h holds `tweets`
Corpus(h, tweets) == [c \in Cells |-> IF c = h THEN tweets ELSE <<Tweet(c)>>]
\* a full frame, one with no tweet in cell 1, one with only stop words in cell 2
Corpora ==
    {Corpus(MaxTime, <<>>), Corpus(1, <<>>), Corpus(2, <<StopTweet>>)}

\* date_range arguments: every sequence of at most MaxLen timestamps
DateRanges == UNION {[1..n -> Timestamps] : n \in 0..MaxLen}

\* lines 92, 126: df[lo:(hi - 1s)].tweet, the tweets stamped in [lo, hi)
RECURSIVE SliceMut(_, _, _)
SliceMut(df, lo, hi) ==
    IF lo > hi \/ lo \notin DOMAIN df THEN <<>>
    ELSE df[lo] \o SliceMut(df, lo + 1, hi)
RECURSIVE Slice(_, _, _)
Slice(df, lo, hi) ==
    IF lo >= hi THEN <<>> ELSE df[lo] \o Slice(df, lo + 1, hi)

\* lines 94, 128: every tweet of the slice through the default tokenizer
Tokenized(tweets) ==
    [k \in DOMAIN tweets |-> twitter_tokenizer(tweets[k], DefaultFlags)]

\* lines 92-94 and 126-128 for the i-th boundary pair (1-based)
sub_df(df, date_range, i) ==
    Tokenized(Slice(df, date_range[i], date_range[i + 1]))

\* lines 89, 121: str(date_range[i + 1].date())
str_date_mut(date_range, i) == date(date_range[i])
str_date(date_range, i) == date(date_range[i + 1])
\* line 122: str(date_range[i].date())
prev_str_date(date_range, i) == date(date_range[i])

(* --------------------------- sklearn models --------------------------- *)
\* the vocabulary a vectorizer learns: the tokens its tokenizer yields
Vocabulary(data) ==
    UNION {{tokenizer(data[k])[j] : j \in DOMAIN data[k]} : k \in DOMAIN data}

\* fit_transform (lines 48, 68) raises ValueError("empty vocabulary") when
\* the documents hold no token at all
FitFails(data) == Vocabulary(data) = {}
\* transform (line 130) raises ValueError on a matrix of 0 samples
TransformFails(data) == Len(data) = 0

TfidfVectorizer(data) == [cls |-> "TfidfVectorizer", fitted_on |-> data]
CountVectorizer(data) == [cls |-> "CountVectorizer", fitted_on |-> data]
\* the matrix a fitted vectorizer or decomposition makes of some data
transform(model, data) == [by |-> model, of |-> data]
NMF(vecs) == [cls |-> "NMF", fitted_on |-> vecs]
LatentDirichletAllocation(vecs) == [cls |-> "LDA", fitted_on |-> vecs]

(* ----------------------------- the Series ----------------------------- *)
Empty == <<>>
\* dict[key] = value
PutMut(dict, key, value) == key :> value
Put(dict, key, value) == (key :> value) @@ dict

Store(cv, tfidf, nmf, lda) ==
    [cv_dict |-> cv, tfidf_dict |-> tfidf, nmf_dict |-> nmf, lda_dict |-> lda]
EmptyStore == Store(Empty, Empty, Empty, Empty)

\* lines 53-54
StoreNmfMut(S, d, tfidf, nmf) ==
    [S EXCEPT !.nmf_dict = Put(@, d, nmf)]
StoreNmf(S, d, tfidf, nmf) ==
    [S EXCEPT !.tfidf_dict = Put(@, d, tfidf), !.nmf_dict = Put(@, d, nmf)]
\* lines 73-74
StoreLda(S, d, cv, lda) ==
    [S EXCEPT !.cv_dict = Put(@, d, cv), !.lda_dict = Put(@, d, lda)]

calculate_nmf(S, d, data) ==
    IF FitFails(data) THEN [outcome |-> "ValueError", S |-> S]
    ELSE LET tfidf == TfidfVectorizer(data)
             nmf == NMF(transform(tfidf, data))
         IN  [outcome |-> "ok", S |-> StoreNmf(S, d, tfidf, nmf)]

calculate_lda(S, d, data) ==
    IF FitFails(data) THEN [outcome |-> "ValueError", S |-> S]
    ELSE LET cv == CountVectorizer(data)
             lda == LatentDirichletAllocation(transform(cv, data))
         IN  [outcome |-> "ok", S |-> StoreLda(S, d, cv, lda)]

\* lines 89-98: one iteration of the loop of fit, i 1-based
FitStepMut(S, df, date_range, i) ==
    LET a == calculate_nmf(S, str_date(date_range, i), sub_df(df, date_range, i))
    IN  [outcome |-> "ok", S |-> a.S]
FitStep(S, df, date_range, i) ==
    LET data == sub_df(df, date_range, i)
        a == calculate_nmf(S, str_date(date_range, i), data)
    IN  IF a.outcome # "ok" THEN a
        ELSE calculate_lda(a.S, str_date(date_range, i), data)

\* line 87: for i in range(len(date_range) - 1), left at the first exception
RECURSIVE FitLoop(_, _, _, _)
FitLoop(S, df, date_range, i) ==
    IF i > Len(date_range) - 1 THEN [outcome |-> "ok", S |-> S]
    ELSE LET r == FitStep(S, df, date_range, i)
         IN  IF r.outcome # "ok" THEN r
             ELSE FitLoop(r.S, df, date_range, i + 1)

\* lines 130-137: the error of the previous period's models on the new data
new_rec_err_mut(S, date_range, i, data) ==
    LET tfidf_vecs == transform(S.tfidf_dict[str_date(date_range, i)], data)
    IN  [X |-> tfidf_vecs,
         W |-> transform(S.nmf_dict[prev_str_date(date_range, i)], tfidf_vecs),
         H |-> S.nmf_dict[prev_str_date(date_range, i)]]
new_rec_err(S, date_range, i, data) ==
    LET tfidf_vecs == transform(S.tfidf_dict[prev_str_date(date_range, i)], data)
    IN  [X |-> tfidf_vecs,
         W |-> transform(S.nmf_dict[prev_str_date(date_range, i)], tfidf_vecs),
         H |-> S.nmf_dict[prev_str_date(date_range, i)]]
\* line 139: the error the current period's model stored at fit time
rec_err(S, date_range, i) ==
    [reconstruction_err_ |-> S.nmf_dict[str_date(date_range, i)]]

\* lines 121-139: one iteration of the loop of calc_rec_error, i 1-based;
\* a dictionary lookup of a missing key raises KeyError
RecStepMut(S, df, date_range, i) ==
    LET data == sub_df(df, date_range, i)
    IN  IF TransformFails(data) THEN [outcome |-> "ValueError"]
        ELSE IF prev_str_date(date_range, i) \notin DOMAIN S.tfidf_dict
        THEN [outcome |-> "KeyError"]
        ELSE IF prev_str_date(date_range, i) \notin DOMAIN S.nmf_dict
        THEN [outcome |-> "KeyError"]
        ELSE IF str_date(date_range, i) \notin DOMAIN S.nmf_dict
        THEN [outcome |-> "KeyError"]
        ELSE [outcome |-> "ok",
              new_rec_err |-> new_rec_err(S, date_range, i, data),
              rec_err |-> rec_err(S, date_range, i)]
RecStep(S, df, date_range, i) ==
    LET data == sub_df(df, date_range, i)
    IN  IF prev_str_date(date_range, i) \notin DOMAIN S.tfidf_dict
        THEN [outcome |-> "KeyError"]
        ELSE IF TransformFails(data) THEN [outcome |-> "ValueError"]
        ELSE IF prev_str_date(date_range, i) \notin DOMAIN S.nmf_dict
        THEN [outcome |-> "KeyError"]
        ELSE IF str_date(date_range, i) \notin DOMAIN S.nmf_dict
        THEN [outcome |-> "KeyError"]
        ELSE [outcome |-> "ok",
              new_rec_err |-> new_rec_err(S, date_range, i, data),
              rec_err |-> rec_err(S, date_range, i)]

\* lines 117-146: the loop, the two lists returned when it runs to its end
RECURSIVE RecLoop(_, _, _, _, _, _)
RecLoop(S, df, date_range, i, model_err, new_err) ==
    IF i > Len(date_range) - 1
    THEN [outcome |-> "ok", ret |-> <<model_err, new_err>>]
    ELSE LET r == RecStep(S, df, date_range, i)
         IN  IF r.outcome # "ok" THEN [outcome |-> r.outcome, ret |-> <<>>]
             ELSE RecLoop(S, df, date_range, i + 1,
                          Append(model_err, r.rec_err),
                          Append(new_err, r.new_rec_err))

\* the object's attributes
self == Store(cv_dict, tfidf_dict, nmf_dict, lda_dict)

(* ------------------------------ actions ------------------------------- *)
\* __init__ (lines 29-34): four empty dictionaries, no call made yet
Init ==
    /\ cv_dict = Empty /\ tfidf_dict = Empty
    /\ nmf_dict = Empty /\ lda_dict = Empty
    /\ pc = "idle" /\ op = "__init__" /\ args = <<>>
    /\ outcome = "ok" /\ ret = <<>>
    /\ doc = <<>> /\ flags = DefaultFlags /\ tokens = <<>> /\ tokens2 = <<>>

\* TopicSeries.fit(df, date_range), lines 76-100
fit(df, date_range) ==
    /\ pc = "idle"
    /\ LET r == FitLoop(self, df, date_range, 1)
       IN  /\ cv_dict' = r.S.cv_dict
           /\ tfidf_dict' = r.S.tfidf_dict
           /\ nmf_dict' = r.S.nmf_dict
           /\ lda_dict' = r.S.lda_dict
           /\ outcome' = r.outcome
    /\ pc' = "returned"
    /\ op' = "fit"
    /\ args' = [df |-> df, date_range |-> date_range]
    /\ ret' = <<>>
    /\ UNCHANGED tok

\* TopicSeries.calc_rec_error(df, date_range), lines 102-146
calc_rec_error(df, date_range) ==
    /\ pc = "idle"
    /\ LET r == RecLoop(self, df, date_range, 1, <<>>, <<>>)
       IN  /\ outcome' = r.outcome
           /\ ret' = r.ret
    /\ pc' = "returned"
    /\ op' = "calc_rec_error"
    /\ args' = [df |-> df, date_range |-> date_range]
    /\ UNCHANGED <<series, tok>>

\* the caller has the result, or the exception, of its call and is free to
\* make the next one
Return ==
    /\ pc = "returned"
    /\ pc' = "idle"
    /\ op' = "__init__" /\ args' = <<>> /\ outcome' = "ok" /\ ret' = <<>>
    /\ UNCHANGED <<series, tok>>

Next ==
    \/ /\ pc = "idle"
       /\ \E df \in Corpora, date_range \in DateRanges : fit(df, date_range)
    \/ /\ pc = "idle"
       /\ \E df \in Corpora, date_range \in DateRanges :
              calc_rec_error(df, date_range)
    \/ Return

Spec == Init /\ [][Next]_vars

(* ----------------------- the tokenizer on its own --------------------- *)
\* the five flags of one token, all combinations
TokenFlags ==
    [like_url : BOOLEAN, is_piclink : BOOLEAN, is_stop : BOOLEAN,
     is_alpha : BOOLEAN, is_hashtag : BOOLEAN]
\* the k-th token of a document: its own text and lemma, any flags
DocToken(k, fl) ==
    Token(<<UpperChars[k], "x">>, <<LowerChars[k]>>, fl.like_url,
          fl.is_piclink, fl.is_stop, fl.is_alpha, fl.is_hashtag)
\* a document: one token per position, of the flags fls gives it
Doc(fls) == [k \in DOMAIN fls |-> DocToken(k, fls[k])]
FlagSettings ==
    [urls : BOOLEAN, stop_words : BOOLEAN, lowercase : BOOLEAN,
     alpha_only : BOOLEAN, hashtags : BOOLEAN, lemma : BOOLEAN]

\* a token sequence read as an annotation stream with no flag set
AsAnnotations(ts) ==
    [k \in DOMAIN ts |-> Token(ts[k], ts[k], FALSE, FALSE, FALSE, FALSE, FALSE)]
\* alpha_only=False, stop_words=False, urls=False, text left as it is
RerunFlags ==
    [urls |-> FALSE, stop_words |-> FALSE, lowercase |-> FALSE,
     alpha_only |-> FALSE, hashtags |-> FALSE, lemma |-> FALSE]

InitTok ==
    /\ cv_dict = Empty /\ tfidf_dict = Empty
    /\ nmf_dict = Empty /\ lda_dict = Empty
    /\ pc = "input" /\ op = "twitter_tokenizer" /\ args = <<>>
    /\ outcome = "ok" /\ ret = <<>>
    /\ \E n \in 0..MaxDocLen : \E fls \in [1..n -> TokenFlags] : doc = Doc(fls)
    /\ flags = DefaultFlags /\ tokens = <<>> /\ tokens2 = <<>>

\* twitter_tokenizer(doc, **f), lines 156-209
Tokenize(f) ==
    /\ pc = "input"
    /\ flags' = f
    /\ tokens' = twitter_tokenizer(doc, f)
    /\ pc' = "tokenized"
    /\ UNCHANGED <<series, op, args, outcome, ret, doc, tokens2>>

\* twitter_tokenizer called again, on the sequence the first call returned
Retokenize ==
    /\ pc = "tokenized"
    /\ doc' = AsAnnotations(tokens)
    /\ flags' = RerunFlags
    /\ tokens2' = twitter_tokenizer(AsAnnotations(tokens), RerunFlags)
    /\ pc' = "retokenized"
    /\ UNCHANGED <<series, op, args, outcome, ret, tokens>>

NextTok ==
    \/ \E f \in FlagSettings : Tokenize(f)
    \/ Retokenize

SpecTok == InitTok /\ [][NextTok]_vars

(* ---------------------- vocabulary of the claims ---------------------- *)
Returned(o) == pc = "returned" /\ op = o
Pairs(dr) == 1..(Len(dr) - 1)
StrictlyIncreasing(dr) == \A i \in Pairs(dr) : dr[i] < dr[i + 1]
DistinctDates(dr) ==
    \A i, j \in DOMAIN dr : i # j => date(dr[i]) # date(dr[j])
\* the dates of b1..bn
Labels(dr) == {date(dr[i + 1]) : i \in Pairs(dr)}
NonEmptySlices(df, dr) ==
    \A i \in Pairs(dr) : Slice(df, dr[i], dr[i + 1]) # <<>>
\* the Series is in the state a completed fit(df, dr) leaves a fresh one in
AfterFreshFit(df, dr) ==
    /\ FitLoop(EmptyStore, df, dr, 1).outcome = "ok"
    /\ self = FitLoop(EmptyStore, df, dr, 1).S
\* both returned lists have n elements
ReturnsLists(n) ==
    /\ outcome = "ok"
    /\ Len(ret) = 2
    /\ Len(ret[1]) = n
    /\ Len(ret[2]) = n
\* the labels whose entry of dictionary d2 is not the one d holds
Written(d, d2) == {l \in DOMAIN d2 : l \notin DOMAIN d \/ d2[l] # d[l]}
\* the period of a fit whose tokenized slice has no vocabulary comes first at k
FirstBadPeriod(df, dr, k) ==
    /\ k \in Pairs(dr)
    /\ FitFails(sub_df(df, dr, k))
    /\ \A j \in 1..(k - 1) : ~FitFails(sub_df(df, dr, j))

(* --------------------------------- C1 --------------------------------- *)
\* C1 as stated: after a completed fit(corpus, B) on a fresh Series, B n+1 >= 3
\* strictly increasing day boundaries with non-empty slices,
\* calc_rec_error(corpus, B) raises nothing and returns two lists of n-1
\* elements.
C1_SameBoundariesReturn ==
    ( /\ Returned("calc_rec_error")
      /\ Len(args.date_range) >= 3
      /\ StrictlyIncreasing(args.date_range)
      /\ DistinctDates(args.date_range)
      /\ NonEmptySlices(args.df, args.date_range)
      /\ AfterFreshFit(args.df, args.date_range) )
    => ReturnsLists(Len(args.date_range) - 2)

\* What the code does after that fit: calc_rec_error(corpus, B without b0)
\* returns two lists of n-1 elements, while calc_rec_error(corpus, B) raises
\* KeyError for the date of b0 at its first pair, unless b0 and b1 fall on one
\* calendar date, and then it returns two lists of n elements.
SameBoundariesBehaviour ==
    Returned("calc_rec_error") =>
        /\ \A b0 \in Timestamps :
               ( /\ Len(args.date_range) >= 2
                 /\ StrictlyIncreasing(<<b0>> \o args.date_range)
                 /\ AfterFreshFit(args.df, <<b0>> \o args.date_range) )
               => ReturnsLists(Len(args.date_range) - 1)
        /\ ( /\ Len(args.date_range) >= 3
             /\ StrictlyIncreasing(args.date_range)
             /\ AfterFreshFit(args.df, args.date_range) )
           => IF date(args.date_range[1]) = date(args.date_range[2])
              THEN ReturnsLists(Len(args.date_range) - 1)
              ELSE outcome = "KeyError" /\ ret = <<>>

(* --------------------------------- C2 --------------------------------- *)
\* C2: in every reachable state the NMF and TF-IDF mappings hold the same
\* labels, and the LDA and count mappings hold the same labels.
C2_PairedEntries ==
    /\ DOMAIN nmf_dict = DOMAIN tfidf_dict
    /\ DOMAIN lda_dict = DOMAIN cv_dict

\* a fit that raised after it had stored a period
C2_Witness ==
    /\ Returned("fit")
    /\ outcome = "ValueError"
    /\ \E k \in Pairs(args.date_range) :
           /\ k >= 2
           /\ FirstBadPeriod(args.df, args.date_range, k)
    /\ DOMAIN nmf_dict # {}

(* --------------------------------- C3 --------------------------------- *)
\* the four mappings hold exactly the labels L after the step
StoresExactly(L) ==
    /\ DOMAIN cv_dict' = L /\ DOMAIN tfidf_dict' = L
    /\ DOMAIN nmf_dict' = L /\ DOMAIN lda_dict' = L
FreshFitCompletes ==
    /\ pc = "idle" /\ self = EmptyStore
    /\ pc' = "returned" /\ op' = "fit" /\ outcome' = "ok"

\* C3 as stated: a completed fit over [b0..bn] on a fresh Series leaves exactly
\* n labels, the dates of b1..bn and not the date of b0, in all four mappings.
C3_ExactlyNLabels ==
    [][ FreshFitCompletes =>
          /\ StoresExactly(Labels(args'.date_range))
          /\ Cardinality(DOMAIN nmf_dict') = Cardinality(Pairs(args'.date_range))
          /\ Len(args'.date_range) >= 1 =>
                 date(args'.date_range[1]) \notin DOMAIN nmf_dict' ]_vars

\* C3 amended: the labels are the set of the dates of b1..bn in all four
\* mappings; they are n labels, the date of b0 not among them, when the dates
\* of b0..bn are pairwise distinct.
C3_LabelsAreDates ==
    [][ FreshFitCompletes =>
          /\ StoresExactly(Labels(args'.date_range))
          /\ DistinctDates(args'.date_range) =>
                 /\ Cardinality(DOMAIN nmf_dict')
                        = Cardinality(Pairs(args'.date_range))
                 /\ Len(args'.date_range) >= 1 =>
                        date(args'.date_range[1]) \notin DOMAIN nmf_dict' ]_vars

\* fit over [d0, d1, d2] on three dates left the two labels d1 and d2
C3_Witness ==
    /\ Returned("fit") /\ outcome = "ok"
    /\ Len(args.date_range) = 3
    /\ DistinctDates(args.date_range)
    /\ AfterFreshFit(args.df, args.date_range)
    /\ DOMAIN nmf_dict = {date(args.date_range[2]), date(args.date_range[3])}
    /\ DOMAIN cv_dict = DOMAIN nmf_dict
    /\ Cardinality(DOMAIN nmf_dict) = 2

(* --------------------------------- C4 --------------------------------- *)
PreviousLabelMissing(i) ==
    /\ i \in Pairs(args.date_range)
    /\ date(args.date_range[i]) \notin DOMAIN tfidf_dict

\* C4 as stated: calc_rec_error on an empty store with at least two strictly
\* increasing boundaries raises KeyError (the missing model) and returns
\* nothing, and so it does whenever the previous label of some boundary pair
\* (of strictly increasing boundaries) was never fitted.
C4_MissingModelAlways ==
    Returned("calc_rec_error") =>
        /\ ( /\ self = EmptyStore
             /\ Len(args.date_range) >= 2
             /\ StrictlyIncreasing(args.date_range) )
           => (outcome = "KeyError" /\ ret = <<>>)
        /\ ( /\ StrictlyIncreasing(args.date_range)
             /\ \E i \in Pairs(args.date_range) : PreviousLabelMissing(i) )
           => (outcome = "KeyError" /\ ret = <<>>)

\* C4 amended: on an empty store as stated; whenever the previous label of
\* some pair was never fitted the call raises and returns nothing, with
\* KeyError if the slices of all earlier pairs are non-empty (an earlier empty
\* slice may raise its ValueError first).
C4_MissingModelFirst ==
    Returned("calc_rec_error") =>
        /\ ( /\ self = EmptyStore
             /\ Len(args.date_range) >= 2
             /\ StrictlyIncreasing(args.date_range) )
           => (outcome = "KeyError" /\ ret = <<>>)
        /\ \A i \in Pairs(args.date_range) :
               PreviousLabelMissing(i) =>
                   /\ outcome \in {"KeyError", "ValueError"}
                   /\ ret = <<>>
                   /\ (\A j \in 1..(i - 1) :
                           Slice(args.df, args.date_range[j],
                                 args.date_range[j + 1]) # <<>>)
                      => outcome = "KeyError"

\* a fitted Series asked about boundaries it was not fitted on
C4_Witness ==
    /\ Returned("calc_rec_error")
    /\ self # EmptyStore
    /\ Len(args.date_range) >= 3
    /\ date(args.date_range[1]) \in DOMAIN tfidf_dict
    /\ PreviousLabelMissing(2)
    /\ NonEmptySlices(args.df, args.date_range)
    /\ outcome = "KeyError"

(* --------------------------------- C5 --------------------------------- *)
CallReturns == pc = "idle" /\ pc' = "returned"

\* C5 as stated: a date_range of fewer than two entries, or not strictly
\* increasing, makes fit and calc_rec_error raise, the store left unchanged.
C5_BadBoundariesRaise ==
    [][ ( /\ CallReturns
          /\ \/ Len(args'.date_range) < 2
             \/ ~StrictlyIncreasing(args'.date_range) )
        => (outcome' # "ok" /\ series' = series) ]_vars

\* the first pair of dr that does not increase is pair k
FirstFlatPair(dr, k) ==
    /\ k \in Pairs(dr)
    /\ dr[k] >= dr[k + 1]
    /\ \A j \in 1..(k - 1) : dr[j] < dr[j + 1]

\* C5 amended: with fewer than two entries both calls return normally (two
\* empty lists from calc_rec_error) and leave the store unchanged; with two or
\* more entries that are not strictly increasing both raise (fit ValueError,
\* calc_rec_error KeyError or ValueError), calc_rec_error leaving the store
\* unchanged and fit having written only labels of the pairs before the first
\* pair that does not increase.
C5_BadBoundariesOutcome ==
    [][ CallReturns =>
          /\ Len(args'.date_range) < 2 =>
                 /\ outcome' = "ok"
                 /\ series' = series
                 /\ op' = "calc_rec_error" => ret' = << <<>>, <<>> >>
          /\ \A k \in Pairs(args'.date_range) :
                 FirstFlatPair(args'.date_range, k) =>
                     /\ op' = "calc_rec_error" =>
                            /\ outcome' \in {"KeyError", "ValueError"}
                            /\ ret' = <<>>
                            /\ series' = series
                     /\ op' = "fit" =>
                            /\ outcome' = "ValueError"
                            /\ \A l \in Written(cv_dict, cv_dict')
                                        \cup Written(tfidf_dict, tfidf_dict')
                                        \cup Written(nmf_dict, nmf_dict')
                                        \cup Written(lda_dict, lda_dict') :
                                   \E j \in 1..(k - 1) :
                                       l = date(args'.date_range[j + 1]) ]_vars

\* calc_rec_error of a single timestamp returned two empty lists
C5_Witness ==
    /\ Returned("calc_rec_error")
    /\ Len(args.date_range) = 1
    /\ outcome = "ok"
    /\ ret = << <<>>, <<>> >>

(* --------------------------------- C6 --------------------------------- *)
\* label l is in dictionary d2 and was not in d
Added(l, d, d2) == l \in DOMAIN d2 /\ l \notin DOMAIN d
AddedAnywhere(l) ==
    \/ Added(l, cv_dict, cv_dict') \/ Added(l, tfidf_dict, tfidf_dict')
    \/ Added(l, nmf_dict, nmf_dict') \/ Added(l, lda_dict, lda_dict')
InAllFour(l) ==
    /\ l \in DOMAIN cv_dict' /\ l \in DOMAIN tfidf_dict'
    /\ l \in DOMAIN nmf_dict' /\ l \in DOMAIN lda_dict'
FitReturns == pc = "idle" /\ pc' = "returned" /\ op' = "fit"

\* C6 as stated: if the slice of period k (of strictly increasing boundaries)
\* has no document or no vocabulary, fit raises; the labels of the periods
\* before k are then in all four mappings and the label of no period from k
\* on has been added to any.
C6_NothingFromBadPeriodOn ==
    [][ (FitReturns /\ StrictlyIncreasing(args'.date_range)) =>
          \A k \in Pairs(args'.date_range) :
              FirstBadPeriod(args'.df, args'.date_range, k) =>
                  /\ outcome' # "ok"
                  /\ \A j \in 1..(k - 1) :
                         InAllFour(date(args'.date_range[j + 1]))
                  /\ \A j \in k..(Len(args'.date_range) - 1) :
                         ~AddedAnywhere(date(args'.date_range[j + 1])) ]_vars

\* C6 amended: ... and the label of a period from k on has been added to a
\* mapping only where it is also the label of a period before k (two
\* boundaries on one calendar date).
C6_OnlyEarlierPeriodsStored ==
    [][ FitReturns =>
          \A k \in Pairs(args'.date_range) :
              FirstBadPeriod(args'.df, args'.date_range, k) =>
                  /\ outcome' = "ValueError"
                  /\ \A j \in 1..(k - 1) :
                         InAllFour(date(args'.date_range[j + 1]))
                  /\ \A j \in k..(Len(args'.date_range) - 1) :
                         AddedAnywhere(date(args'.date_range[j + 1])) =>
                             \E e \in 1..(k - 1) :
                                 date(args'.date_range[e + 1])
                                     = date(args'.date_range[j + 1]) ]_vars

\* a fit that stored its first period and raised at its second
C6_Witness ==
    /\ Returned("fit")
    /\ outcome = "ValueError"
    /\ Len(args.date_range) = 3
    /\ FirstBadPeriod(args.df, args.date_range, 2)
    /\ date(args.date_range[2]) \in DOMAIN nmf_dict
    /\ date(args.date_range[2]) \in DOMAIN lda_dict
    /\ date(args.date_range[3]) \notin DOMAIN nmf_dict
    /\ date(args.date_range[3]) \notin DOMAIN cv_dict

(* --------------------------------- C7 --------------------------------- *)
Kept(d, d2) == \A l \in DOMAIN d : l \in DOMAIN d2 /\ d2[l] = d[l]

\* C7 as stated: once a label has a model in one of the four mappings, no
\* later operation replaces or removes that model.
C7_EntriesNeverChange ==
    [][ /\ Kept(cv_dict, cv_dict') /\ Kept(tfidf_dict, tfidf_dict')
        /\ Kept(nmf_dict, nmf_dict') /\ Kept(lda_dict, lda_dict') ]_vars

\* every label of d stays in d2, its model changed only by a fit one of whose
\* boundaries b1..bn falls on that label
KeptOrRefitted(d, d2) ==
    \A l \in DOMAIN d :
        /\ l \in DOMAIN d2
        /\ d2[l] # d[l] => (op' = "fit" /\ l \in Labels(args'.date_range))

\* C7 amended: no operation removes a label from any of the four mappings and
\* calc_rec_error changes no model; fit replaces the models under the labels
\* of the periods it fits and leaves every other entry as it was.
C7_EntriesChangeOnlyByRefit ==
    [][ /\ KeptOrRefitted(cv_dict, cv_dict')
        /\ KeptOrRefitted(tfidf_dict, tfidf_dict')
        /\ KeptOrRefitted(nmf_dict, nmf_dict')
        /\ KeptOrRefitted(lda_dict, lda_dict') ]_vars

\* a later fit that left the entry of an earlier one in place
C7_Witness ==
    /\ Returned("fit") /\ outcome = "ok"
    /\ Labels(args.date_range) # {}
    /\ \E l \in DOMAIN nmf_dict : l \notin Labels(args.date_range)
    /\ \E l \in DOMAIN nmf_dict : l \in Labels(args.date_range)

(* --------------------------------- C8 --------------------------------- *)
\* C8 as stated: twitter_tokenizer run on its own output, read as annotations
\* with no flag set, with alpha_only, stop_words and urls off, returns that
\* output unchanged.
C8_Idempotent == pc = "retokenized" => tokens2 = tokens

(* --------------------------------- C9 --------------------------------- *)
\* the three exclusion rules as the claim words them
ExcludedByRules(t, f) ==
    \/ t.like_url \/ (t.is_piclink /\ f.urls)
    \/ t.is_stop /\ f.stop_words
    \/ ~(t.is_alpha /\ f.alpha_only) /\ ~(~f.hashtags /\ t.is_hashtag)
Survivors(d, f) ==
    LET keep(t) == ~ExcludedByRules(t, f) IN SelectSeq(d, keep)
Shown(t, f) == Render(t, f.lowercase, f.lemma)

C10_PreviousPairOnCurrentSlice ==
    /\ \A l \in DOMAIN nmf_dict : nmf_dict[l].fitted_on.by = tfidf_dict[l]
    /\ \A l \in DOMAIN lda_dict : lda_dict[l].fitted_on.by = cv_dict[l]
    /\ (Returned("calc_rec_error") /\ outcome = "ok") =>
        \A i \in Pairs(args.date_range) :
            LET carried == ret[2][i]
                own == ret[1][i]
                prev == date(args.date_range[i])
                cur == date(args.date_range[i + 1])
            IN  /\ carried.X.by = tfidf_dict[prev]
                /\ carried.X.of = Tokenized(Slice(args.df, args.date_range[i],
                                                  args.date_range[i + 1]))
                /\ carried.W.by = nmf_dict[prev]
                /\ carried.W.of = carried.X
                /\ carried.H = nmf_dict[prev]
                /\ carried.W.by.fitted_on.by = carried.X.by
                /\ own.reconstruction_err_ = nmf_dict[cur]

\* calc_rec_error returned over a pair of boundaries on two dates whose
\* models differ
C10_Witness ==
    /\ Returned("calc_rec_error") /\ outcome = "ok"
    /\ Len(args.date_range) >= 2
    /\ date(args.date_range[1]) # date(args.date_range[2])
    /\ tfidf_dict[date(args.date_range[1])] # tfidf_dict[date(args.date_range[2])]
    /\ Len(ret[2]) = Len(args.date_range) - 1

====
